---- MODULE Spec2Model ----
(***************************************************************************)
(* Model of sc-manifest-form: the cell-type abbreviation parser, the       *)
(* mandatory-field validator, the YAML serializer and the submission       *)
(* handler of the Streamlit script.                                        *)
(*                                                                         *)
(* Text is modelled as a sequence of one-character strings, so that        *)
(* strip / split / replace are computed character by character.            *)
(***************************************************************************)
EXTENDS Integers, Sequences, FiniteSets, TLC

VARIABLES
    supplied,         \* serializer: per model, the order its field values were supplied in
    record,           \* serializer: manifest.model_dump() as first produced
    manifest_dump,    \* serializer: the dict handed to save_manifest_to_yaml
    dumps,            \* serializer: the documents written so far, one per call
    loaded,           \* serializer: what reading a written document back gave
    form,             \* handler: the form values of the last submission
    run,              \* handler: how the last submission ended and what it computed
    files,            \* handler: the files of the working directory
    session,          \* handler: st.session_state (yaml_content, yaml_filename)
    now,              \* handler: the clock, in seconds
    made,             \* handler: the file names of the successful submissions, in order
    submissions,      \* handler: number of submissions so far
    storage,          \* handler: how the disk behaved during the last submission
    pc,               \* position of the run: "start" before the call, "done" after it
    cell_types_str,   \* parser: the text handed to parse_cell_types
    parsed,           \* parser: what parse_cell_types returned or raised
    candidate,        \* validator: the dict handed to validate_mandatory_fields
    errors            \* validator: the list it returned

parseVars == <<cell_types_str, parsed>>
validVars == <<candidate, errors>>
yamlVars == <<supplied, record, manifest_dump, dumps, loaded>>
subVars == <<form, run, files, session, now, made, submissions, storage>>
vars == <<pc, parseVars, validVars, yamlVars, subVars>>

\* the variables of the components a specification does not exercise
IdleParse == cell_types_str = <<>> /\ parsed = [ok |-> TRUE, value |-> <<>>]
IdleValid == candidate = [top |-> <<>>, study |-> <<>>] /\ errors = <<>>
IdleYaml ==
    /\ supplied = <<>>
    /\ record = <<>>
    /\ manifest_dump = <<>>
    /\ dumps = <<>>
    /\ loaded = [from |-> 0, value |-> <<>>]

IdleSubmit ==
    /\ form = <<>>
    /\ run = <<>>
    /\ files = {}
    /\ session = <<>>
    /\ now = 0
    /\ made = <<>>
    /\ submissions = 0
    /\ storage = "ok"

(***************************************************************************)
(* Bounds                                                                  *)
(***************************************************************************)
MaxLines == 3
MaxTextLen == 2
MaxDumps == 2
MaxTokens == 3
MaxSubmissions == 2
MaxClock == 2

(***************************************************************************)
(* Python str helpers                                                      *)
(***************************************************************************)
NL == "\n"
SP == " "

\* str.isspace for the characters of the model
IsSpace(c) == c \in {SP, NL}

Contains(s, c) == \E i \in 1..Len(s) : s[i] = c

Whitespace == {c \in {SP, NL} : IsSpace(c)}

\* str.lstrip(chars), str.rstrip(chars), str.strip(chars)
RECURSIVE LStripChars(_, _)
LStripChars(s, chars) ==
    IF s # <<>> /\ Head(s) \in chars THEN LStripChars(Tail(s), chars) ELSE s

RECURSIVE RStripChars(_, _)
RStripChars(s, chars) ==
    IF s # <<>> /\ s[Len(s)] \in chars
    THEN RStripChars(SubSeq(s, 1, Len(s) - 1), chars) ELSE s

StripChars(s, chars) == RStripChars(LStripChars(s, chars), chars)

\* str.strip()
Strip(s) == StripChars(s, Whitespace)

\* str.replace(c, r) for a one-character c
RECURSIVE Replace(_, _, _)
Replace(s, c, r) ==
    IF s = <<>> THEN <<>>
    ELSE (IF Head(s) = c THEN r ELSE <<Head(s)>>) \o Replace(Tail(s), c, r)

\* index of the first occurrence of c in s, 0 when absent (str.find + 1)
RECURSIVE FindFrom(_, _, _)
FindFrom(s, c, i) ==
    IF i > Len(s) THEN 0
    ELSE IF s[i] = c THEN i
    ELSE FindFrom(s, c, i + 1)

Find(s, c) == FindFrom(s, c, 1)

\* str.split(sep, maxsplit); maxsplit = -1 splits at every occurrence
RECURSIVE SplitN(_, _, _)
SplitN(s, sep, maxsplit) ==
    LET i == Find(s, sep) IN
    IF maxsplit = 0 \/ i = 0 THEN <<s>>
    ELSE <<SubSeq(s, 1, i - 1)>> \o
         SplitN(SubSeq(s, i + 1, Len(s)), sep,
                IF maxsplit < 0 THEN maxsplit ELSE maxsplit - 1)

Split(s, sep) == SplitN(s, sep, -1)

\* sep.join(parts)
RECURSIVE Join(_, _)
Join(parts, sep) ==
    IF parts = <<>> THEN <<>>
    ELSE IF Len(parts) = 1 THEN parts[1]
    ELSE parts[1] \o <<sep>> \o Join(Tail(parts), sep)

(***************************************************************************)
(* Python dict, insertion ordered: a sequence of <<key, value>> pairs.     *)
(***************************************************************************)
DictKeys(d) == [i \in 1..Len(d) |-> d[i][1]]

DictHas(d, k) == \E i \in 1..Len(d) : d[i][1] = k

DictGet(d, k) == d[CHOOSE i \in 1..Len(d) : d[i][1] = k][2]

\* a dict whose assignment keeps the first value of a key
DictSetKeepFirst(d, k, v) ==
    IF DictHas(d, k) THEN d ELSE Append(d, <<k, v>>)

\* d[k] = v : an existing key keeps its position, a new key goes last
DictSet(d, k, v) ==
    IF DictHas(d, k)
    THEN [i \in 1..Len(d) |-> IF d[i][1] = k THEN <<k, v>> ELSE d[i]]
    ELSE Append(d, <<k, v>>)

(***************************************************************************)
(* parse_cell_types                                                        *)
(***************************************************************************)
\* the backtick character (the lexer of TLA+ rejects it inside a string)
BQ == "backtick"

\* the characters line 43 rejects in an abbreviation
AbbrReserved == {"\"", "'", "{", "}", "[", "]", "|", ">", "&", "*", "?", "!", "%", "@", BQ}

Returned(d) == [ok |-> TRUE, value |-> d]
Raised(n, m) == [ok |-> FALSE, line |-> n, msg |-> m]

\* the body of the for loop over enumerate(lines, 1)
RECURSIVE parse_loop(_, _, _)
parse_loop(lines, line_number, cell_types) ==
    IF line_number > Len(lines) THEN Returned(cell_types)
    ELSE
      LET line == lines[line_number] IN
      IF Strip(line) = <<>> THEN parse_loop(lines, line_number + 1, cell_types)
      ELSE IF ~Contains(line, ":") THEN Raised(line_number, "Missing colon separator")
      ELSE
        LET parts == SplitN(line, ":", 1)
            abbr  == Strip(parts[1])
            desc  == Strip(parts[2])
        IN
        IF abbr = <<>> THEN Raised(line_number, "Abbreviation is missing")
        ELSE IF desc = <<>> THEN Raised(line_number, "Description is missing")
        ELSE IF \E i \in 1..Len(abbr) : abbr[i] \in AbbrReserved
             THEN Raised(line_number, "Abbreviation contains invalid characters")
        ELSE parse_loop(lines, line_number + 1, DictSet(cell_types, abbr, desc))

parse_cell_types(s) ==
    IF Strip(s) = <<>> THEN Returned(<<>>)
    ELSE parse_loop(Split(Strip(s), NL), 1, <<>>)

(***************************************************************************)
(* Inputs of the parser: texts of up to MaxLines lines.                    *)
(***************************************************************************)
SampleLines ==
    { <<>>,
      <<SP>>,
      <<"A", ":", "x">>,
      <<"A", ":", "y">>,
      <<"B", ":", "x">>,
      <<SP, "A", SP, ":", SP, "x", ":", "y", SP>>,
      <<"A", "x">>,
      <<":", "x">>,
      <<"A", ":", SP>>,
      <<"A", "*", ":", "x">>,
      <<"B", ":", "*">> }

RECURSIVE LineLists(_)
LineLists(n) ==
    IF n = 0 THEN {<<>>}
    ELSE LET shorter == LineLists(n - 1) IN
         shorter \cup {Append(ls, l) : ls \in {x \in shorter : Len(x) = n - 1}, l \in SampleLines}

ParserTexts == {Join(ls, NL) : ls \in LineLists(MaxLines)}

InitParse ==
    /\ cell_types_str \in ParserTexts
    /\ parsed = Returned(<<>>)
    /\ pc = "start"
    /\ IdleValid
    /\ IdleYaml
    /\ IdleSubmit

\* one call parse_cell_types(cell_types_str)
Parse ==
    /\ pc = "start"
    /\ parsed' = parse_cell_types(cell_types_str)
    /\ pc' = "done"
    /\ UNCHANGED <<cell_types_str, validVars, yamlVars, subVars>>

NextParse == Parse

SpecParse == InitParse /\ [][NextParse]_vars

(***************************************************************************)
(* What the parser is expected to do, stated on the text as given.         *)
(***************************************************************************)
GivenLines == Split(cell_types_str, NL)

NonBlank(l) == Strip(l) # <<>>

\* the text before / after the first colon of a line, trimmed
AbbrOf(l) == Strip(SubSeq(l, 1, Find(l, ":") - 1))
DescOf(l) == Strip(SubSeq(l, Find(l, ":") + 1, Len(l)))

WellFormed(l) ==
    /\ Contains(l, ":")
    /\ AbbrOf(l) # <<>>
    /\ DescOf(l) # <<>>
    /\ \A i \in 1..Len(AbbrOf(l)) : AbbrOf(l)[i] \notin AbbrReserved

Entries == {i \in 1..Len(GivenLines) : NonBlank(GivenLines[i])}

AllWellFormed == \A i \in Entries : WellFormed(GivenLines[i])

Malformed == {i \in Entries : ~WellFormed(GivenLines[i])}

Min(S) == CHOOSE x \in S : \A y \in S : x <= y
Max(S) == CHOOSE x \in S : \A y \in S : x >= y

Occurrences(k) == {i \in Entries : AbbrOf(GivenLines[i]) = k}

\* C1: on a text whose non-blank lines are all well formed, parse_cell_types
\* returns a mapping whose keys are exactly the trimmed abbreviations (split
\* at the first colon), without repetition and in order of first occurrence,
\* each mapped to the trimmed description of its last occurrence.
C1_ParseValid ==
    (pc = "done" /\ AllWellFormed) =>
        /\ parsed.ok
        /\ LET d == parsed.value IN
           /\ {d[i][1] : i \in 1..Len(d)} = {AbbrOf(GivenLines[i]) : i \in Entries}
           /\ \A i, j \in 1..Len(d) :
                 i < j => Min(Occurrences(d[i][1])) < Min(Occurrences(d[j][1]))
           /\ \A i \in 1..Len(d) :
                 d[i][2] = DescOf(GivenLines[Max(Occurrences(d[i][1]))])

\* a well-formed text with two abbreviations, one of them given twice with
\* different descriptions, has been parsed
C1_Witness ==
    /\ pc = "done"
    /\ AllWellFormed
    /\ parsed.ok
    /\ Len(parsed.value) >= 2
    /\ \E i, j \in Entries :
          /\ i < j
          /\ AbbrOf(GivenLines[i]) = AbbrOf(GivenLines[j])
          /\ DescOf(GivenLines[i]) # DescOf(GivenLines[j])

\* C2: on a text with a malformed non-blank line, parse_cell_types raises, and
\* the line number of the error is the 1-based position, in the text as
\* given, of the first malformed line.
C2_FirstMalformedLine ==
    (pc = "done" /\ Malformed # {}) =>
        /\ ~parsed.ok
        /\ parsed.line = Min(Malformed)

(***************************************************************************)
(* Python values of the manifest dict, tagged with their type.  The keys   *)
(* of the schema are one-element texts holding the field name.             *)
(***************************************************************************)
PyStr(s)  == [t |-> "str", v |-> s]
PyInt(n)  == [t |-> "int", v |-> n]
PyList(l) == [t |-> "list", v |-> l]
PyDict(d) == [t |-> "dict", v |-> d]

K(name) == <<name>>

\* d[k1][k2]
Get2(d, k1, k2) == DictGet(DictGet(d, K(k1)).v, K(k2))

\* d[k1][k2] = v
Set2(d, k1, k2, v) == DictSet(d, K(k1), PyDict(DictSet(DictGet(d, K(k1)).v, K(k2), v)))

(***************************************************************************)
(* yaml_handler.py                                                         *)
(***************************************************************************)
BS == "\\"
DQ == "\""
SQ == "'"

\* the characters line 27 looks for
FormatSpecial == {DQ, SQ, "{", "}", "[", "]", "|", ">", "&", "*", "?", "!", ":", "%", "@", BQ}

format_string_for_yaml(s) ==
    IF s = <<>> THEN <<>>
    ELSE IF Contains(s, NL) \/ \E i \in 1..Len(s) : s[i] \in FormatSpecial
         THEN Replace(s, DQ, <<BS, DQ>>)
    ELSE s

RECURSIVE clean_dict_strings(_)
RECURSIVE clean_loop(_, _)

\* the loop over d.items(), clean being the dict built so far
clean_loop(items, clean) ==
    IF items = <<>> THEN clean
    ELSE
      LET k == items[1][1]
          v == items[1][2]
          clean_key == StripChars(Strip(k), {SQ, DQ})
          clean_value ==
              IF v.t = "str"
              THEN PyStr(RStripChars(StripChars(Strip(v.v), {SQ, DQ}), {","}))
              ELSE IF v.t = "dict" THEN PyDict(clean_dict_strings(v.v))
              ELSE v
      IN clean_loop(Tail(items), DictSet(clean, clean_key, clean_value))

clean_dict_strings(d) == clean_loop(d, <<>>)

\* data.copy() is shallow: the nested dicts of the result are those of the
\* argument, so the value computed here is also the argument after the call
format_manifest_data(data) ==
    LET f1 == Set2(data, "study", "title",
                   PyStr(format_string_for_yaml(Get2(data, "study", "title").v)))
        f2 == Set2(f1, "study", "abstract",
                   PyStr(format_string_for_yaml(Get2(data, "study", "abstract").v)))
        f3 == Set2(f2, "study", "app_link",
                   PyStr(format_string_for_yaml(Get2(data, "study", "app_link").v)))
        f4 == Set2(f3, "geo", "geo_summary",
                   PyStr(format_string_for_yaml(Get2(data, "geo", "geo_summary").v)))
        f5 == Set2(f4, "processing", "description",
                   PyStr(format_string_for_yaml(Get2(data, "processing", "description").v)))
        cta == Get2(data, "study", "cell_type_abbreviations")
    IN IF cta.t = "dict"
       THEN Set2(f5, "study", "cell_type_abbreviations", PyDict(clean_dict_strings(cta.v)))
       ELSE f5

(***************************************************************************)
(* yaml.dump as save_manifest_to_yaml calls it: the emitted document is    *)
(* the tree of nodes in emission order, every scalar with the style that   *)
(* the emitter chooses and the characters it writes between delimiters.    *)
(***************************************************************************)
DigitChars == <<"0", "1", "2", "3", "4", "5", "6", "7", "8", "9">>

IsDigit(c) == \E i \in 1..10 : DigitChars[i] = c

DigitVal(c) == (CHOOSE i \in 1..10 : DigitChars[i] = c) - 1

\* str(n) for an int n
RECURSIVE Digits(_)
Digits(n) ==
    IF n < 0 THEN <<"-">> \o Digits(0 - n)
    ELSE IF n < 10 THEN <<DigitChars[n + 1]>>
    ELSE Digits(n \div 10) \o <<DigitChars[(n % 10) + 1]>>

\* value of a non-empty run of digits
RECURSIVE DigitsValue(_, _)
DigitsValue(s, acc) ==
    IF s = <<>> THEN acc ELSE DigitsValue(Tail(s), 10 * acc + DigitVal(Head(s)))

AllDigits(s) == s # <<>> /\ \A i \in 1..Len(s) : IsDigit(s[i])

\* the int and timestamp patterns of the implicit resolver
IsIntText(s) ==
    \/ AllDigits(s)
    \/ Len(s) > 1 /\ s[1] \in {"-", "+"} /\ AllDigits(Tail(s))

IsDateText(s) ==
    /\ Len(s) = 10
    /\ \A i \in {1, 2, 3, 4, 6, 7, 9, 10} : IsDigit(s[i])
    /\ s[5] = "-" /\ s[8] = "-"

\* a plain scalar with this text is read back as a str
ResolvesToStr(s) == ~(s = <<>> \/ s = <<"~">> \/ IsIntText(s) \/ IsDateText(s))

YamlSpace(c) == c \in {SP, NL, "\t", "\r"}

\* analyze_scalar: the text can be written plain in block context
allow_block_plain(s) ==
    LET n == Len(s)
        followed_by_whitespace(i) == i = n \/ YamlSpace(s[i + 1])
        preceded_by_whitespace(i) == i = 1 \/ YamlSpace(s[i - 1])
        document_indicator ==
            n >= 3 /\ (SubSeq(s, 1, 3) = <<"-", "-", "-">> \/ SubSeq(s, 1, 3) = <<".", ".", ".">>)
        block_indicators ==
            \/ document_indicator
            \/ s[1] \in {"#", ",", "[", "]", "{", "}", "&", "*", "!", "|", ">", SQ, DQ, "%", "@", BQ}
            \/ s[1] \in {"?", ":"} /\ followed_by_whitespace(1)
            \/ s[1] = "-" /\ followed_by_whitespace(1)
            \/ \E i \in 2..n : s[i] = ":" /\ followed_by_whitespace(i)
            \/ \E i \in 2..n : s[i] = "#" /\ preceded_by_whitespace(i)
    IN
    \/ s = <<>>
    \/ /\ s[1] \notin {SP, NL} /\ s[n] \notin {SP, NL}
       /\ ~Contains(s, NL)
       /\ ~Contains(s, "\t") /\ ~Contains(s, "\r")
       /\ ~block_indicators

\* analyze_scalar: the text can be written between single quotes
allow_single_quoted(s) ==
    /\ ~\E i \in 1..(Len(s) - 1) : s[i] = NL /\ s[i + 1] = SP
    /\ ~\E i \in 1..(Len(s) - 1) : s[i] = SP /\ s[i + 1] = NL
    /\ ~Contains(s, "\t") /\ ~Contains(s, "\r")

\* choose_scalar_style for a str node without a style of its own
choose_scalar_style(s, simple_key_context) ==
    IF /\ ResolvesToStr(s)
       /\ ~(simple_key_context /\ (s = <<>> \/ Contains(s, NL)))
       /\ allow_block_plain(s)
    THEN "plain"
    ELSE IF allow_single_quoted(s) /\ ~(simple_key_context /\ Contains(s, NL))
    THEN "single"
    ELSE "double"

\* write_single_quoted: a quote is doubled, a run of breaks gets one more
RECURSIVE write_single_quoted(_, _)
write_single_quoted(s, previous_break) ==
    IF s = <<>> THEN <<>>
    ELSE LET ch == Head(s) IN
         (IF ch = SQ THEN <<SQ, SQ>>
          ELSE IF ch = NL /\ ~previous_break THEN <<NL, NL>>
          ELSE <<ch>>) \o write_single_quoted(Tail(s), ch = NL)

\* write_double_quoted: escapes of quote, backslash and break
RECURSIVE write_double_quoted(_)
write_double_quoted(s) ==
    IF s = <<>> THEN <<>>
    ELSE LET ch == Head(s) IN
         (IF ch = DQ THEN <<BS, DQ>>
          ELSE IF ch = BS THEN <<BS, BS>>
          ELSE IF ch = NL THEN <<BS, "n">>
          ELSE <<ch>>) \o write_double_quoted(Tail(s))

Node(kind, style, text, items) ==
    [kind |-> kind, style |-> style, text |-> text, items |-> items]

\* represent_str followed by the emitter's choice of style
represent_str(s, simple_key_context) ==
    LET style == choose_scalar_style(s, simple_key_context) IN
    Node("scalar", style,
         IF style = "plain" THEN s
         ELSE IF style = "single" THEN write_single_quoted(s, FALSE)
         ELSE write_double_quoted(s),
         <<>>)

\* every key of the manifest in alphabetical order
SortedNames ==
    << "abstract", "andata_on_azure", "app_link", "cell_type_abbreviations",
       "cluster_cell_numbers", "description", "geo", "geo_summary", "geoid",
       "loc", "name", "no_of_cells_after_pp", "no_of_clusters",
       "no_of_genes_after_pp", "no_of_samples", "note", "organisms",
       "platforms", "pmid", "pp_notebooks", "processed_date", "processing",
       "project_id", "results", "study", "title", "urls", "year" >>

NameRank(k) == CHOOSE i \in 1..Len(SortedNames) : SortedNames[i] = k[1]

\* sorted(mapping.items()) for a dict of schema keys
SortedItems(d) ==
    IF \A i \in 1..Len(d) : \E j \in 1..Len(SortedNames) : SortedNames[j] = d[i][1][1]
    THEN [i \in 1..Len(d) |->
            d[CHOOSE p \in 1..Len(d) :
                Cardinality({q \in 1..Len(d) : NameRank(d[q][1]) < NameRank(d[p][1])}) = i - 1]]
    ELSE d

RECURSIVE represent_data(_)
RECURSIVE represent_mapping(_)

\* represent_mapping under sort_keys=True
represent_mapping_sorted(d) ==
    LET m == SortedItems(d) IN
    Node("map", IF m = <<>> THEN "flow" ELSE "block", <<>>,
         [i \in 1..Len(m) |-> <<represent_str(m[i][1], TRUE), represent_data(m[i][2])>>])

\* represent_mapping under sort_keys=False: the items in the dict's order;
\* an empty collection is written in flow style
represent_mapping(d) ==
    Node("map", IF d = <<>> THEN "flow" ELSE "block", <<>>,
         [i \in 1..Len(d) |-> <<represent_str(d[i][1], TRUE), represent_data(d[i][2])>>])

represent_data(v) ==
    IF v.t = "str" THEN represent_str(v.v, FALSE)
    ELSE IF v.t = "int" THEN Node("scalar", "plain", Digits(v.v), <<>>)
    ELSE IF v.t = "list"
         THEN Node("seq", IF v.v = <<>> THEN "flow" ELSE "block", <<>>,
                   [i \in 1..Len(v.v) |-> represent_data(v.v[i])])
    ELSE represent_mapping(v.v)

\* yaml.dump(formatted_data, f, sort_keys=False, default_flow_style=False, ...)
yaml_dump(formatted_data) == represent_data(PyDict(formatted_data))

(***************************************************************************)
(* Reading a document back into a generic mapping (yaml.safe_load).        *)
(***************************************************************************)
\* a quoted quote is one quote; a lone break folds to a space, a run of
\* breaks loses its first
RECURSIVE scan_single_quoted(_, _)
scan_single_quoted(t, previous_break) ==
    IF t = <<>> THEN <<>>
    ELSE IF Head(t) = SQ /\ Len(t) >= 2 /\ t[2] = SQ
         THEN <<SQ>> \o scan_single_quoted(Tail(Tail(t)), FALSE)
    ELSE IF Head(t) = NL /\ ~previous_break
         THEN (IF Len(t) >= 2 /\ t[2] = NL THEN <<>> ELSE <<SP>>)
              \o scan_single_quoted(Tail(t), TRUE)
    ELSE <<Head(t)>> \o scan_single_quoted(Tail(t), Head(t) = NL)

RECURSIVE scan_double_quoted(_)
scan_double_quoted(t) ==
    IF t = <<>> THEN <<>>
    ELSE IF Head(t) = BS /\ Len(t) >= 2
         THEN (IF t[2] = "n" THEN <<NL>> ELSE <<t[2]>>) \o scan_double_quoted(Tail(Tail(t)))
    ELSE <<Head(t)>> \o scan_double_quoted(Tail(t))

PyNone == [t |-> "none", v |-> <<>>]

scalar_text(node) ==
    IF node.style = "single" THEN scan_single_quoted(node.text, FALSE)
    ELSE IF node.style = "double" THEN scan_double_quoted(node.text)
    ELSE node.text

construct_scalar(node) ==
    LET s == scalar_text(node) IN
    IF node.style # "plain" THEN PyStr(s)
    ELSE IF s = <<>> \/ s = <<"~">> THEN PyNone
    ELSE IF AllDigits(s) THEN PyInt(DigitsValue(s, 0))
    ELSE IF IsIntText(s)
         THEN PyInt(IF s[1] = "-" THEN 0 - DigitsValue(Tail(s), 0) ELSE DigitsValue(Tail(s), 0))
    ELSE PyStr(s)

RECURSIVE construct_object(_)
construct_object(node) ==
    IF node.kind = "scalar" THEN construct_scalar(node)
    ELSE IF node.kind = "seq"
         THEN PyList([i \in 1..Len(node.items) |-> construct_object(node.items[i])])
    ELSE PyDict([i \in 1..Len(node.items) |->
                   <<scalar_text(node.items[i][1]), construct_object(node.items[i][2])>>])

yaml_load(document) == construct_object(document).v

(***************************************************************************)
(* models.py: the fields of each model in declaration order, and the dict  *)
(* a model gives (model_dump): its fields in declaration order, whatever   *)
(* the order of the keyword arguments.                                     *)
(***************************************************************************)
ProcessingFields == <<"description">>
StudyFields ==
    <<"name", "title", "abstract", "pmid", "app_link", "year", "note",
      "cell_type_abbreviations">>
GeoInfoFields ==
    <<"platforms", "organisms", "geoid", "geo_summary", "urls", "processed_date">>
LocationFields == <<"andata_on_azure", "pp_notebooks">>
ResultsFields ==
    <<"no_of_samples", "no_of_cells_after_pp", "no_of_genes_after_pp",
      "no_of_clusters", "cluster_cell_numbers">>
ManifestDataFields == <<"project_id", "study", "geo", "loc", "results", "processing">>

model_dump(fields, kwargs) ==
    [i \in 1..Len(fields) |-> <<K(fields[i]), DictGet(kwargs, K(fields[i]))>>]

\* the keyword arguments of a constructor call: the values in the given order
Kwargs(order, values) ==
    [i \in 1..Len(order) |-> <<K(order[i]), values[order[i]]>>]

\* the order of the keyword arguments in main.py, lines 300 to 344
MainOrder ==
    [study |-> StudyFields,
     results |-> <<"no_of_samples", "no_of_cells_after_pp", "no_of_clusters",
                   "no_of_genes_after_pp", "cluster_cell_numbers">>,
     loc |-> LocationFields,
     geo |-> GeoInfoFields,
     processing |-> ProcessingFields,
     manifest |-> ManifestDataFields]

\* ManifestData(...).model_dump() for the given field values
Manifest(order, v) ==
    LET study == model_dump(StudyFields, Kwargs(order.study, v))
        results == model_dump(ResultsFields, Kwargs(order.results, v))
        location == model_dump(LocationFields, Kwargs(order.loc, v))
        geo_info == model_dump(GeoInfoFields, Kwargs(order.geo, v))
        processing == model_dump(ProcessingFields, Kwargs(order.processing, v))
        top == [project_id |-> v.project_id, study |-> PyDict(study),
                geo |-> PyDict(geo_info), loc |-> PyDict(location),
                results |-> PyDict(results), processing |-> PyDict(processing)]
    IN model_dump(ManifestDataFields, Kwargs(order.manifest, top))

(***************************************************************************)
(* Inputs of the serializer                                                *)
(***************************************************************************)
TextChars == {"a", DQ, ":", NL, SP, SQ, ","}

RECURSIVE TextsUpTo(_)
TextsUpTo(n) ==
    IF n = 0 THEN {<<>>}
    ELSE LET shorter == TextsUpTo(n - 1) IN
         shorter \cup {Append(t, c) : t \in shorter, c \in TextChars}

Texts == TextsUpTo(MaxTextLen)

Hundred == <<"1", "0", "0">>
ADate == <<"2", "0", "2", "4", "-", "0", "2", "-", "0", "6">>

\* the field values of a valid record
FieldValuesOf(title, abstract, free, abbreviations, pmid_list) ==
    [project_id |-> PyStr(<<"P">>),
     name |-> PyStr(<<"a">>), title |-> PyStr(title), abstract |-> PyStr(abstract),
     pmid |-> PyList(pmid_list), app_link |-> PyStr(free), year |-> PyStr(ADate),
     note |-> PyStr(<<>>), cell_type_abbreviations |-> PyDict(abbreviations),
     no_of_samples |-> PyStr(Hundred), no_of_cells_after_pp |-> PyStr(Hundred),
     no_of_genes_after_pp |-> PyStr(Hundred), no_of_clusters |-> PyStr(Hundred),
     cluster_cell_numbers |-> PyDict(<<>>),
     andata_on_azure |-> PyStr(<<>>), pp_notebooks |-> PyStr(<<>>),
     platforms |-> PyStr(<<"a">>), organisms |-> PyList(<<PyStr(<<"a", SP, "a">>)>>),
     geoid |-> PyStr(<<"a">>), geo_summary |-> PyStr(free), urls |-> PyList(<<>>),
     processed_date |-> PyStr(ADate),
     description |-> PyStr(free)]

\* abstract and the remaining free-text fields of a record
RestValues == {<<<<"a">>, <<>>>>, <<<<"a", NL, "a">>, <<"a">>>>, <<<<"a">>, <<"a", ":", SP, DQ>>>>}

\* the abbreviation dicts whose first description is d
AbbreviationsWith(d) ==
    { <<>>,
      << <<<<"A">>, PyStr(d)>> >>,
      << <<<<"A">>, PyStr(d)>>, <<<<"B">>, PyStr(<<"a">>)>> >> }

InitYaml ==
    /\ supplied = MainOrder
    /\ \E text \in Texts \ {<<>>}, rest \in RestValues :
       \E abbreviations \in AbbreviationsWith(text),
          pmid_list \in {<<PyInt(7), PyInt(12)>>} :
          record = Manifest(supplied,
                            FieldValuesOf(text, rest[1], rest[2], abbreviations, pmid_list))
    /\ manifest_dump = record
    /\ dumps = <<>>
    /\ loaded = [from |-> 0, value |-> <<>>]
    /\ pc = "start"
    /\ IdleParse
    /\ IdleValid
    /\ IdleSubmit

\* save_manifest_to_yaml(data, filename): format_manifest_data works on the
\* nested dicts of its argument, then the document is written
Save ==
    /\ Len(dumps) < MaxDumps
    /\ manifest_dump' = format_manifest_data(manifest_dump)
    /\ dumps' = Append(dumps, yaml_dump(manifest_dump'))
    /\ UNCHANGED <<pc, supplied, record, loaded, parseVars, validVars, subVars>>

\* reading the last written document back into a generic mapping
Load ==
    /\ dumps # <<>>
    /\ loaded.from # Len(dumps)
    /\ loaded' = [from |-> Len(dumps), value |-> yaml_load(dumps[Len(dumps)])]
    /\ UNCHANGED <<pc, supplied, record, manifest_dump, dumps, parseVars, validVars, subVars>>

NextYaml == Save \/ Load

SpecYaml == InitYaml /\ [][NextYaml]_vars

\* every order of the elements of a sequence
RECURSIVE PermsOfSet(_)
PermsOfSet(S) ==
    IF S = {} THEN {<<>>}
    ELSE UNION {{<<x>> \o p : p \in PermsOfSet(S \ {x})} : x \in S}

PermsOf(q) == PermsOfSet({q[i] : i \in 1..Len(q)})

Reverse(q) == [i \in 1..Len(q) |-> q[Len(q) + 1 - i]]

Rotations(q) ==
    {[i \in 1..Len(q) |-> q[((i + r - 1) % Len(q)) + 1]] : r \in 0..(Len(q) - 1)}

\* the orders in which the field values of the models are supplied: those of
\* main.py with the order of one model replaced, or every model reversed
SuppliedOrders ==
    {[MainOrder EXCEPT !.manifest = o] : o \in PermsOf(ManifestDataFields)}
    \cup {[MainOrder EXCEPT !.geo = o] : o \in PermsOf(GeoInfoFields)}
    \cup {[MainOrder EXCEPT !.results = o] : o \in PermsOf(ResultsFields)}
    \cup {[MainOrder EXCEPT !.loc = o] : o \in PermsOf(LocationFields)}
    \cup {[MainOrder EXCEPT !.study = o] : o \in Rotations(StudyFields) \cup {Reverse(StudyFields)}}
    \cup {[m \in DOMAIN MainOrder |-> Reverse(MainOrder[m])]}

InitOrder ==
    /\ supplied \in SuppliedOrders
    /\ \E text \in {<<"a">>, <<"a", DQ>>} :
          record = Manifest(supplied,
                            FieldValuesOf(text, text, text,
                                          << <<<<"B">>, PyStr(text)>>, <<<<"A">>, PyStr(text)>> >>,
                                          <<PyInt(7)>>))
    /\ manifest_dump = record
    /\ dumps = <<>>
    /\ loaded = [from |-> 0, value |-> <<>>]
    /\ pc = "start"
    /\ IdleParse
    /\ IdleValid
    /\ IdleSubmit

SpecOrder == InitOrder /\ [][NextYaml]_vars

(***************************************************************************)
(* Properties of the serializer                                            *)
(***************************************************************************)
\* the value node under a key of a mapping node
MapGet(node, name) ==
    node.items[CHOOSE i \in 1..Len(node.items) : scalar_text(node.items[i][1]) = K(name)][2]

\* the keys of a mapping node in the order they were written
KeyNames(node) == [i \in 1..Len(node.items) |-> scalar_text(node.items[i][1])[1]]

\* the designated free-text fields
Designated ==
    { <<"study", "title">>, <<"study", "abstract">>, <<"study", "app_link">>,
      <<"geo", "geo_summary">>, <<"processing", "description">> }

\* C4: in every written document each designated free-text field (study
\* title, study abstract, application link, GEO summary, processing
\* description) is a quoted scalar, whatever its content.
C4_FreeTextQuoted ==
    \A n \in 1..Len(dumps) : \A f \in Designated :
        MapGet(MapGet(dumps[n], f[1]), f[2]).style \in {"single", "double"}

\* C5: reading back the document written for a valid record gives a mapping
\* whose every field equals the field of the original record.
C5_RoundTrip ==
    loaded.from = 1 => loaded.value = record

\* C6: two calls of the serializer on the same record write the same bytes.
C6_Idempotent ==
    Len(dumps) >= 2 => dumps[1] = dumps[2]

\* C7: every written document has the top-level keys in the order project_id,
\* study, geo, loc, results, processing and the keys of each nested record in
\* the declaration order of its model, whatever the order in which the field
\* values were supplied and whatever the values.
C7_DeclarationOrder ==
    \A n \in 1..Len(dumps) :
        /\ KeyNames(dumps[n]) = ManifestDataFields
        /\ KeyNames(MapGet(dumps[n], "study")) = StudyFields
        /\ KeyNames(MapGet(dumps[n], "geo")) = GeoInfoFields
        /\ KeyNames(MapGet(dumps[n], "loc")) = LocationFields
        /\ KeyNames(MapGet(dumps[n], "results")) = ResultsFields
        /\ KeyNames(MapGet(dumps[n], "processing")) = ProcessingFields

\* a record built from values supplied in another order than the declared
\* one, at the top level and in a nested model, has been written
C7_Witness ==
    /\ dumps # <<>>
    /\ supplied.manifest # ManifestDataFields
    /\ supplied.results # ResultsFields
    /\ supplied.geo # GeoInfoFields

(***************************************************************************)
(* validate_mandatory_fields                                               *)
(***************************************************************************)
\* not data.get(k): the key is absent (None) or its value is the empty string
Falsy(d, k) == ~DictHas(d, k) \/ DictGet(d, k) = <<>>

\* a validator that finds nothing missing
validate_nothing(data) == <<>>

\* the validator returning at its first violated check
validate_fail_fast(data) ==
    IF Falsy(data.top, "project_id") THEN <<"Project ID is required">>
    ELSE IF Falsy(data.study, "name") THEN <<"Study name is required">>
    ELSE IF Falsy(data.study, "title") THEN <<"Study title is required">>
    ELSE IF Falsy(data.study, "abstract") THEN <<"Study abstract is required">>
    ELSE <<>>

\* data.top holds the top-level string entries, data.study the entries of
\* data.get('study', {}): an absent study and an empty one read the same
validate_mandatory_fields(data) ==
    LET e0 == <<>>
        e1 == IF Falsy(data.top, "project_id")
              THEN Append(e0, "Project ID is required") ELSE e0
        study == data.study
        e2 == IF Falsy(study, "name")
              THEN Append(e1, "Study name is required") ELSE e1
        e3 == IF Falsy(study, "title")
              THEN Append(e2, "Study title is required") ELSE e2
        e4 == IF Falsy(study, "abstract")
              THEN Append(e3, "Study abstract is required") ELSE e3
    IN e4


(***************************************************************************)
(* main.py: the submission handler                                         *)
(***************************************************************************)
\* int(token.strip()): the value, or ValueError
py_int(token) ==
    LET t == Strip(token) IN
    IF AllDigits(t) THEN [ok |-> TRUE, value |-> DigitsValue(t, 0)]
    ELSE IF IsIntText(t)
         THEN [ok |-> TRUE,
               value |-> IF t[1] = "-" THEN 0 - DigitsValue(Tail(t), 0)
                         ELSE DigitsValue(Tail(t), 0)]
    ELSE [ok |-> FALSE, value |-> 0]

\* the PubMed list which drops the tokens that are not integers
pmid_list_lenient(pmid) ==
    LET tokens == Split(pmid, ",")
        good == SelectSeq(tokens, LAMBDA t : py_int(t).ok)
    IN [ok |-> TRUE, value |-> [i \in 1..Len(good) |-> py_int(good[i]).value]]

\* line 282: [int(id.strip()) for id in pmid.split(",")] if pmid.strip() else []
pmid_list_of(pmid) ==
    IF Strip(pmid) = <<>> THEN [ok |-> TRUE, value |-> <<>>]
    ELSE LET tokens == Split(pmid, ",") IN
         IF \E i \in 1..Len(tokens) : ~py_int(tokens[i]).ok
         THEN [ok |-> FALSE, value |-> <<>>]
         ELSE [ok |-> TRUE, value |-> [i \in 1..Len(tokens) |-> py_int(tokens[i]).value]]

\* [x.strip() for x in text.splitlines() if x.strip()]
stripped_lines(text) ==
    LET lines == Split(text, NL)
        kept == SelectSeq(lines, LAMBDA l : Strip(l) # <<>>)
    IN [i \in 1..Len(kept) |-> Strip(kept[i])]

\* the type every model field must have (models.py)
FieldType ==
    [project_id |-> "str", name |-> "str", title |-> "str", abstract |-> "str",
     pmid |-> "list", app_link |-> "str", year |-> "str", note |-> "str",
     cell_type_abbreviations |-> "dict",
     no_of_samples |-> "str", no_of_cells_after_pp |-> "str",
     no_of_genes_after_pp |-> "str", no_of_clusters |-> "str",
     cluster_cell_numbers |-> "dict",
     andata_on_azure |-> "str", pp_notebooks |-> "str",
     platforms |-> "str", organisms |-> "list", geoid |-> "str",
     geo_summary |-> "str", urls |-> "list", processed_date |-> "str",
     description |-> "str"]

\* the constructors of lines 300 to 344 accept the values
ModelsAccept(v) == \A f \in DOMAIN FieldType : v[f].t = FieldType[f]

\* a message shown with st.error: its fixed text and what is formatted into it
Message(text, detail) == [text |-> text, detail |-> detail]

NoFile == [stamp |-> -1, stem |-> "none"]

\* f"manifest_{datetime.now().strftime('%Y%m%d_%H%M%S')}.yaml": the name
\* carries the time to the second
ManifestFile(time) == [stamp |-> time, stem |-> "manifest_"]

\* the values handed to the model constructors
ModelValues(inputs, pmid_list, cell_types_dict, urls_list, organisms_list) ==
    [project_id |-> PyStr(inputs.project_id),
     name |-> PyStr(inputs.study_name), title |-> PyStr(inputs.study_title),
     abstract |-> PyStr(inputs.study_abstract),
     pmid |-> PyList([i \in 1..Len(pmid_list) |-> PyInt(pmid_list[i])]),
     app_link |-> PyStr(<<>>), year |-> PyStr(ADate), note |-> PyStr(<<>>),
     cell_type_abbreviations |->
         PyDict([i \in 1..Len(cell_types_dict) |->
                   <<cell_types_dict[i][1], PyStr(cell_types_dict[i][2])>>]),
     no_of_samples |-> PyStr(Hundred), no_of_cells_after_pp |-> PyStr(Hundred),
     no_of_genes_after_pp |-> PyStr(Hundred), no_of_clusters |-> PyStr(Hundred),
     cluster_cell_numbers |-> PyDict(<<>>),
     andata_on_azure |-> PyStr(<<>>), pp_notebooks |-> PyStr(<<>>),
     platforms |-> PyStr(<<"a">>),
     organisms |-> PyList([i \in 1..Len(organisms_list) |-> PyStr(organisms_list[i])]),
     geoid |-> PyStr(<<"a">>), geo_summary |-> PyStr(<<>>),
     urls |-> PyList([i \in 1..Len(urls_list) |-> PyStr(urls_list[i])]),
     processed_date |-> PyStr(ADate),
     description |-> PyStr(<<>>)]

\* a handler whose st.error calls show nothing
OutcomeSilent(how, shown, pmid_list, cell_types_dict, organisms_list, file, content) ==
    [how |-> how, shown |-> <<>>, pmid_list |-> pmid_list,
     cell_types_dict |-> cell_types_dict, organisms_list |-> organisms_list,
     file |-> file, content |-> content]

\* what one run of the handler leaves: how it ended ("generated", "stopped"
\* by st.stop() after an error, "error" in the outer except), the messages
\* shown, the locals computed, the file opened for writing and what it holds
Outcome(how, shown, pmid_list, cell_types_dict, organisms_list, file, content) ==
    [how |-> how, shown |-> shown, pmid_list |-> pmid_list,
     cell_types_dict |-> cell_types_dict, organisms_list |-> organisms_list,
     file |-> file, content |-> content]

\* a handler that normalises the PubMed list and parses the abbreviations
\* before it checks the mandatory fields
submit_handler_format_first(inputs, time, disk) ==
    LET candidate_data ==
            [top |-> << <<"project_id", inputs.project_id>> >>,
             study |-> << <<"name", inputs.study_name>>, <<"title", inputs.study_title>>,
                          <<"abstract", inputs.study_abstract>> >>]
        validation_errors == validate_mandatory_fields(candidate_data)
        pm == pmid_list_of(inputs.pmid)
        ct == parse_cell_types(inputs.cell_types_str)
        urls_list == stripped_lines(inputs.urls)
        organisms_list == stripped_lines(inputs.organisms)
        values == ModelValues(inputs, pm.value, ct.value, urls_list, organisms_list)
        filename == ManifestFile(time)
        written == yaml_dump(format_manifest_data(Manifest(MainOrder, values)))
    IN
    IF ~pm.ok
    THEN Outcome("stopped",
                 <<Message("Error: PubMed IDs must be valid integers separated by commas", <<>>)>>,
                 <<>>, <<>>, <<>>, NoFile, <<>>)
    ELSE IF ~ct.ok
    THEN Outcome("stopped",
                 <<Message("Error: Invalid cell type abbreviations format. Please check the format and try again.", <<>>)>>,
                 pm.value, <<>>, <<>>, NoFile, <<>>)
    ELSE IF validation_errors # <<>>
    THEN Outcome("stopped",
                 [i \in 1..Len(validation_errors) |-> Message(validation_errors[i], <<>>)],
                 pm.value, ct.value, organisms_list, NoFile, <<>>)
    ELSE IF disk # "ok"
    THEN Outcome("error", <<Message("Error", <<"OSError">>)>>,
                 pm.value, ct.value, organisms_list,
                 IF disk = "open fails" THEN NoFile ELSE filename, <<>>)
    ELSE Outcome("generated", <<>>, pm.value, ct.value, organisms_list, filename, written)

\* lines 259 to 363 for the submitted inputs, at the given time, on a disk that
\* is "ok", refuses to open the file or fails during the write
submit_handler(inputs, time, disk) ==
    LET candidate_data ==
            [top |-> << <<"project_id", inputs.project_id>> >>,
             study |-> << <<"name", inputs.study_name>>, <<"title", inputs.study_title>>,
                          <<"abstract", inputs.study_abstract>> >>]
        validation_errors == validate_mandatory_fields(candidate_data)
        pm == pmid_list_of(inputs.pmid)
        ct == parse_cell_types(inputs.cell_types_str)
        urls_list == stripped_lines(inputs.urls)
        organisms_list == stripped_lines(inputs.organisms)
        values == ModelValues(inputs, pm.value, ct.value, urls_list, organisms_list)
        filename == ManifestFile(time)
        model_dict == Manifest(MainOrder, values)
        written == yaml_dump(format_manifest_data(model_dict))
    IN
    IF validation_errors # <<>>
    THEN Outcome("stopped",
                 [i \in 1..Len(validation_errors) |-> Message(validation_errors[i], <<>>)],
                 <<>>, <<>>, <<>>, NoFile, <<>>)
    ELSE IF ~pm.ok
    THEN Outcome("stopped",
                 <<Message("Error: PubMed IDs must be valid integers separated by commas", <<>>)>>,
                 <<>>, <<>>, <<>>, NoFile, <<>>)
    ELSE IF ~ct.ok
    THEN Outcome("stopped",
                 <<Message("Error: Invalid cell type abbreviations format. Please check the format and try again.", <<>>)>>,
                 pm.value, <<>>, <<>>, NoFile, <<>>)
    ELSE IF ~ModelsAccept(values)
    THEN Outcome("stopped", <<Message("Validation Error", <<"ValueError">>)>>,
                 pm.value, ct.value, organisms_list, NoFile, <<>>)
    ELSE IF disk = "open fails"
    THEN Outcome("error", <<Message("Error", <<"OSError">>)>>,
                 pm.value, ct.value, organisms_list, NoFile, <<>>)
    ELSE IF disk = "write fails"
    THEN Outcome("error", <<Message("Error", <<"OSError">>)>>,
                 pm.value, ct.value, organisms_list, filename, <<>>)
    ELSE Outcome("generated", <<>>, pm.value, ct.value, organisms_list, filename, written)

\* values a inputs field can hold: empty, blank, some text
FieldValues == {<<>>, <<SP>>, <<"a">>}

\* the dicts over the keys ks (in that order) with any of them left out
RECURSIVE DictsOver(_)
DictsOver(ks) ==
    IF ks = <<>> THEN {<<>>}
    ELSE LET rest == DictsOver(Tail(ks)) IN
         rest \cup {<<<<Head(ks), v>>>> \o d : v \in FieldValues, d \in rest}

Candidates ==
    [top : DictsOver(<<"project_id">>),
     study : DictsOver(<<"name", "title", "abstract">>)]

InitValidate ==
    /\ candidate \in Candidates
    /\ errors = <<>>
    /\ pc = "start"
    /\ IdleParse
    /\ IdleYaml
    /\ IdleSubmit

\* one call validate_mandatory_fields(candidate)
Validate ==
    /\ pc = "start"
    /\ errors' = validate_mandatory_fields(candidate)
    /\ pc' = "done"
    /\ UNCHANGED <<candidate, parseVars, yamlVars, subVars>>

NextValidate == Validate

SpecValidate == InitValidate /\ [][NextValidate]_vars

(***************************************************************************)
(* The script: every run of it, a submission or not, executes lines 380 to *)
(* 382, remove_old_manifests() and then main().                            *)
(***************************************************************************)
\* glob.glob("manifest_*.yaml") and os.remove of every match
remove_old_manifests(dir) == {x \in dir : x.file.stem # "manifest_"}

\* open(filename, 'w') and the write: a file of that name is replaced
WriteFile(dir, file, content) ==
    {x \in dir : x.file # file} \cup {[file |-> file, content |-> content]}

GoodForm ==
    [project_id |-> <<"P">>, study_name |-> <<"a">>, study_title |-> <<"a">>,
     study_abstract |-> <<"a">>, pmid |-> <<"7">>,
     cell_types_str |-> <<"A", ":", "x">>, organisms |-> <<"a">>, urls |-> <<>>]

PmidTokens == {<<>>, <<"7">>, <<SP, "1", "2", SP>>, <<"a">>, <<"1", SP, "2">>, <<"-", "3">>}

RECURSIVE TokenLists(_)
TokenLists(n) ==
    IF n = 0 THEN {<<>>}
    ELSE LET shorter == TokenLists(n - 1) IN
         shorter \cup {Append(ts, t) : ts \in {x \in shorter : Len(x) = n - 1}, t \in PmidTokens}

PmidTexts == {Join(ts, ",") : ts \in TokenLists(MaxTokens)} \cup {<<SP>>}

\* the forms submitted in a sequence of submissions: a good form with its
\* abbreviation text, its organisms or its PubMed text varied, and the
\* combinations of a missing mandatory field with a malformed PubMed list and
\* a malformed abbreviation line
SubmittedForms ==
    {[GoodForm EXCEPT !.cell_types_str = c] :
            c \in {<<>>, <<SP, NL>>, <<"A", ":", "x", NL, "B", ":", "x", NL, "A", ":", "y">>,
                   <<NL, "A", "x">>, <<"A", ":", "x", NL, ":", "x">>, <<"A", "*", ":", "x">>}}
    \cup {[GoodForm EXCEPT !.organisms = o] :
            o \in {<<>>, <<SP>>, <<SP, "a", SP, NL, NL, "b">>}}
    \cup {[GoodForm EXCEPT !.pmid = p] :
            p \in {<<SP>>, <<SP, "1", "2", SP, ",", "7">>, <<"7", ",", ",">>}}
    \cup {[GoodForm EXCEPT !.study_name = <<>>], [GoodForm EXCEPT !.study_abstract = <<>>],
          [GoodForm EXCEPT !.project_id = <<SP>>]}
    \cup {[GoodForm EXCEPT !.project_id = i, !.study_title = t, !.pmid = p, !.cell_types_str = c] :
            i \in {<<>>, <<"P">>}, t \in {<<>>, <<"a">>},
            p \in {<<"7">>, <<"a">>}, c \in {<<"A", ":", "x">>, <<NL, "A", "x">>}}

\* the forms of a single submission: the above, and every PubMed text of up
\* to MaxTokens tokens
SweptForms ==
    SubmittedForms \cup {[GoodForm EXCEPT !.pmid = p] : p \in PmidTexts}

NoRun == Outcome("none", <<>>, <<>>, <<>>, <<>>, NoFile, <<>>)

\* what the working directory may hold when the process starts: a file that
\* is no manifest, and possibly a manifest of an earlier process
OtherFile == [file |-> [stamp |-> 0, stem |-> "test_manifest"], content |-> <<>>]
StaleManifest == [file |-> ManifestFile(0), content |-> <<>>]

InitSubmit ==
    /\ form = GoodForm
    /\ run = NoRun
    /\ files \in {{OtherFile}, {OtherFile, StaleManifest}}
    /\ session = [yaml_content |-> <<>>, yaml_filename |-> NoFile]
    /\ now = 1
    /\ made = <<>>
    /\ submissions = 0
    /\ storage = "ok"
    /\ pc = "start"
    /\ IdleParse
    /\ IdleValid
    /\ IdleYaml

\* a run of the script with the form f submitted: remove_old_manifests(),
\* then main() with the handler
SubmitWith(f, disk) ==
    /\ \E out \in {submit_handler(f, now, disk)} :
       \E dir \in {remove_old_manifests(files)} :
          /\ form' = f
          /\ run' = out
          /\ files' = IF out.file # NoFile
                      THEN WriteFile(dir, out.file, out.content) ELSE dir
          /\ session' = IF out.how = "generated"
                        THEN [yaml_content |-> out.content, yaml_filename |-> out.file]
                        ELSE session
          /\ made' = IF out.how = "generated" THEN Append(made, out.file) ELSE made
    /\ submissions' = submissions + 1
    /\ storage' = disk
    /\ UNCHANGED <<now, pc, parseVars, validVars, yamlVars>>

\* one more submission of the process
Submit ==
    /\ submissions < MaxSubmissions
    /\ \E f \in SubmittedForms, disk \in {"ok", "open fails", "write fails"} :
          /\ disk # "ok" => f = GoodForm
          /\ SubmitWith(f, disk)

\* the first submission of the process
SubmitOnce ==
    /\ submissions = 0
    /\ \E f \in SweptForms : SubmitWith(f, "ok")

\* a run of the script without a submission (page load, download click)
Rerun ==
    /\ files' = remove_old_manifests(files)
    /\ UNCHANGED <<form, run, session, now, made, submissions, storage, pc, parseVars, validVars, yamlVars>>

\* a second passes
Tick ==
    /\ now < MaxClock
    /\ now' = now + 1
    /\ UNCHANGED <<form, run, files, session, made, submissions, storage, pc, parseVars, validVars, yamlVars>>

NextSubmit == Submit \/ Rerun \/ Tick

SpecSubmit == InitSubmit /\ [][NextSubmit]_vars

NextOnce == SubmitOnce \/ Tick

SpecOnce == InitSubmit /\ [][NextOnce]_vars

(***************************************************************************)
(* Properties of the validator                                             *)
(***************************************************************************)
\* the four checks in their fixed order: <<entries, key, message>>
MandatoryChecks ==
    << <<candidate.top, "project_id", "Project ID is required">>,
       <<candidate.study, "name", "Study name is required">>,
       <<candidate.study, "title", "Study title is required">>,
       <<candidate.study, "abstract", "Study abstract is required">> >>

NonEmptyField(c) == DictHas(c[1], c[2]) /\ Len(DictGet(c[1], c[2])) > 0

Violated == {i \in 1..4 : ~NonEmptyField(MandatoryChecks[i])}

\* C3: validate_mandatory_fields returns the messages of exactly the violated
\* checks, all of them, in the fixed order project id, study name, study
\* title, study abstract; the list is empty iff the four fields are non-empty.
C3_ValidateAll ==
    pc = "done" =>
        /\ Len(errors) = Cardinality(Violated)
        /\ \A i \in Violated :
              errors[Cardinality({j \in Violated : j <= i})] = MandatoryChecks[i][3]
        /\ (errors = <<>>) <=> (\A i \in 1..4 : NonEmptyField(MandatoryChecks[i]))

\* a candidate missing only project id and study title has been validated
C3_Witness ==
    /\ pc = "done"
    /\ Violated = {1, 3}
    /\ errors = <<"Project ID is required", "Study title is required">>

(***************************************************************************)
(* Properties of the submission handler                                    *)
(***************************************************************************)
Submitted == run.how # "none"

MissingMandatory ==
    \/ form.project_id = <<>> \/ form.study_name = <<>>
    \/ form.study_title = <<>> \/ form.study_abstract = <<>>

PmidTokensGiven == Split(form.pmid, ",")

\* a token that reads as an integer once trimmed: digits with an optional sign
IsInteger(token) ==
    LET t == Strip(token)
        digits == IF t # <<>> /\ t[1] \in {"-", "+"} THEN Tail(t) ELSE t
    IN digits # <<>> /\ \A i \in 1..Len(digits) : IsDigit(digits[i])

IntegerOf(token) ==
    LET t == Strip(token) IN
    IF t[1] = "-" THEN 0 - DigitsValue(Tail(t), 0)
    ELSE IF t[1] = "+" THEN DigitsValue(Tail(t), 0)
    ELSE DigitsValue(t, 0)

BlankPmid == \A i \in 1..Len(form.pmid) : form.pmid[i] \in {SP, NL}

MalformedPmid == ~BlankPmid /\ \E i \in 1..Len(PmidTokensGiven) : ~IsInteger(PmidTokensGiven[i])

MalformedAbbreviations ==
    LET lines == Split(form.cell_types_str, NL) IN
    \E i \in 1..Len(lines) : NonBlank(lines[i]) /\ ~WellFormed(lines[i])

PubMedMessage == Message("Error: PubMed IDs must be valid integers separated by commas", <<>>)

\* the study.pmid entry read back from what the run wrote
WrittenPmid == Get2(yaml_load(run.content), "study", "pmid").v

\* C8: in a submission that passes the mandatory-field check, blank PubMed
\* text gives the empty list; otherwise the text is split on commas and each
\* token trimmed and read as an integer, in input order, and that list is the
\* one written; if any token is not an integer the submission stops with the
\* one PubMed error, without a list and without a manifest.
C8_PubMedList ==
    (Submitted /\ ~MissingMandatory) =>
        IF BlankPmid
        THEN run.pmid_list = <<>> /\ PubMedMessage \notin {run.shown[i] : i \in 1..Len(run.shown)}
        ELSE IF MalformedPmid
        THEN /\ run.how = "stopped"
             /\ run.shown = <<PubMedMessage>>
             /\ run.pmid_list = <<>>
             /\ run.file = NoFile
        ELSE /\ run.pmid_list = [i \in 1..Len(PmidTokensGiven) |-> IntegerOf(PmidTokensGiven[i])]
             /\ run.how = "generated" =>
                   WrittenPmid = [i \in 1..Len(run.pmid_list) |-> PyInt(run.pmid_list[i])]

\* a submission with two different PubMed ids, padded with spaces, has
\* produced a manifest
C8_Witness ==
    /\ Submitted
    /\ run.how = "generated"
    /\ Len(run.pmid_list) >= 2
    /\ run.pmid_list[1] # run.pmid_list[2]
    /\ Contains(form.pmid, SP)

\* C9: a submission with a missing mandatory field, a malformed PubMed list
\* or a malformed abbreviation line stops before the serializer: it opens no
\* file for writing and the directory holds no manifest file after it.
C9_NoFileOnFailure ==
    (Submitted /\ (MissingMandatory \/ MalformedPmid \/ MalformedAbbreviations)) =>
        /\ run.how = "stopped"
        /\ run.file = NoFile
        /\ \A x \in files : x.file.stem # "manifest_"

\* after a successful submission, a submission with a malformed abbreviation
\* line and nothing else wrong has been made
C9_Witness ==
    /\ Submitted
    /\ made # <<>>
    /\ MalformedAbbreviations /\ ~MissingMandatory /\ ~MalformedPmid
    /\ run.how = "stopped"

\* C10: every successful submission of the process leaves a manifest file of
\* its own: after n successful submissions the directory holds n distinct
\* manifest files, those named in made.
C10_OneFilePerSubmission ==
    /\ \A i \in 1..Len(made) : \E x \in files : x.file = made[i]
    /\ \A i, j \in 1..Len(made) : i # j => made[i] # made[j]

\* the form passes the mandatory-field check, its PubMed text is blank or a
\* list of integers, and its abbreviation lines are well formed
ValidForm == ~MissingMandatory /\ ~MalformedPmid /\ ~MalformedAbbreviations

\* C11: every submission ends either with a manifest generated and no error
\* message, or with at least one error message shown and no manifest
\* generated; the handler ends in no other way (no error leaves it).  A
\* submission of a valid form on a working disk generates a manifest whatever
\* the submissions before it were, in particular after a failed one.
C11_OutcomeVisible ==
    Submitted =>
        /\ run.how \in {"generated", "stopped", "error"}
        /\ (run.how = "generated") <=> (run.shown = <<>>)
        /\ run.how = "generated" =>
              /\ run.file # NoFile
              /\ session = [yaml_content |-> run.content, yaml_filename |-> run.file]
        /\ (ValidForm /\ storage = "ok") => run.how = "generated"

\* the second submission, of a valid form, has generated a manifest after the
\* first one failed with a message
C11_Witness ==
    /\ submissions = 2
    /\ Len(made) = 1
    /\ run.how = "generated"
    /\ ValidForm

\* the submission got as far as the abbreviation text, which has a malformed line
AbbreviationAbort ==
    Submitted /\ ~MissingMandatory /\ ~MalformedPmid /\ MalformedAbbreviations

\* C12: a submission aborted because of a malformed abbreviation line shows
\* one message, and that message carries the line number that
\* parse_cell_types raised for the text.
C12_MessageNamesLine ==
    AbbreviationAbort =>
        /\ run.how = "stopped"
        /\ Len(run.shown) = 1
        /\ run.shown[1].detail = <<parse_cell_types(form.cell_types_str).line>>

\* the organisms text as the user entered it: its non-blank lines, trimmed, in order
OrganismsEntered ==
    LET lines == Split(form.organisms, NL)
        kept == SelectSeq(lines, NonBlank)
    IN [i \in 1..Len(kept) |-> PyStr(Strip(kept[i]))]

HomoSapiens == <<"H", "o", "m", "o", " ", "s", "a", "p", "i", "e", "n", "s">>

\* the geo.organisms entry read back from what the run wrote
WrittenOrganisms == Get2(yaml_load(run.content), "geo", "organisms").v

\* C13: in every manifest a submission produces, geo.organisms is the list of
\* the trimmed non-empty lines of the organisms text, in order, and when the
\* text has no such line it is the one placeholder organism "Homo sapiens".
C13_OrganismsDefault ==
    (Submitted /\ run.how = "generated") =>
        WrittenOrganisms = IF OrganismsEntered = <<>> THEN <<PyStr(HomoSapiens)>>
                           ELSE OrganismsEntered

AbbreviationMessage ==
    Message("Error: Invalid cell type abbreviations format. Please check the format and try again.", <<>>)

\* the messages of the mandatory fields the form leaves empty, in the order
\* project id, study name, study title, study abstract
MissingMessages ==
    LET checks == << <<form.project_id, "Project ID is required">>,
                     <<form.study_name, "Study name is required">>,
                     <<form.study_title, "Study title is required">>,
                     <<form.study_abstract, "Study abstract is required">> >>
        missing == SelectSeq(checks, LAMBDA c : c[1] = <<>>)
    IN [i \in 1..Len(missing) |-> Message(missing[i][2], <<>>)]

\* C14 as stated: the PubMed list and the abbreviations are processed before
\* the mandatory fields are validated, so a submission with a malformed PubMed
\* list or abbreviation line and a missing mandatory field reports the format
\* error and not the list of missing fields.
C14_FormatErrorFirst ==
    (Submitted /\ MissingMandatory /\ (MalformedPmid \/ MalformedAbbreviations)) =>
        /\ run.how = "stopped"
        /\ run.shown \in {<<PubMedMessage>>, <<AbbreviationMessage>>}

\* C14 amended: within one submission the mandatory fields are validated
\* first, then the PubMed list is normalised, then the abbreviations are
\* parsed, then the record is assembled and serialized; each step that fails
\* ends the submission with its own messages before the later steps run.  A
\* submission with a missing mandatory field reports the list of missing
\* fields, whatever its PubMed and abbreviation texts are.
C14_ValidationFirst ==
    Submitted =>
        /\ MissingMandatory =>
              /\ run.how = "stopped"
              /\ run.shown = MissingMessages
              /\ run.pmid_list = <<>> /\ run.cell_types_dict = <<>>
        /\ (~MissingMandatory /\ MalformedPmid) =>
              /\ run.how = "stopped"
              /\ run.shown = <<PubMedMessage>>
              /\ run.cell_types_dict = <<>>
        /\ AbbreviationAbort =>
              /\ run.how = "stopped"
              /\ run.shown = <<AbbreviationMessage>>
        /\ run.how = "generated" => (ValidForm /\ run.file # NoFile)

\* a submission with two mandatory fields missing, a malformed PubMed list and
\* a malformed abbreviation line has reported the two missing fields
C14_Witness ==
    /\ Submitted
    /\ MissingMandatory /\ MalformedPmid /\ MalformedAbbreviations
    /\ Len(run.shown) = 2
    /\ run.shown = MissingMessages

====
